---- MODULE Spec2Model ----
(***************************************************************************)
(* Model of the provider fallback engine of the text-enhancement app:      *)
(* the persisted provider configuration (ConfigManager), the adapter       *)
(* singletons of the registry (ProviderManager), the privacy gate          *)
(* (PrivacyManager), the 'ai:enhance' request handler and the chat path    *)
(* ('chat:send-message').                                                  *)
(*                                                                         *)
(* One action is one run of the event loop between two suspension points:  *)
(* a handler runs synchronously up to its first await, and continues       *)
(* when the awaited adapter promise settles or the 60 s timer fires.       *)
(***************************************************************************)
EXTENDS Integers, Sequences, FiniteSets, TLC

VARIABLES
    config,      \* store 'config.providers': sequence of ProviderConfig
    adapters,    \* state of the adapter singletons, by registered name
    lastIndex,   \* lastIndex of the two global SENSITIVE_PATTERNS
    calls,       \* the ai:enhance requests, by slot
    chat,        \* the chat:send-message request
    saves,       \* number of configuration saves made so far
    configured,  \* the last answer of getConfiguredProviders()
    test         \* the ai:test-provider request

vars == <<config, adapters, lastIndex, calls, chat, saves, configured, test>>

-----------------------------------------------------------------------------
(* Bounds of the model *)

NumCalls == 2          \* ai:enhance requests in one behaviour
MaxSaves == 1          \* configuration saves in one behaviour
MaxClock == 2          \* milliseconds a request is followed for

Calls == 1..NumCalls

-----------------------------------------------------------------------------
(* Small helpers *)

Undefined == "<undefined>"

\* JavaScript truthiness of a string-or-undefined value
Truthy(s) == s # "" /\ s # Undefined

Range(s) == {s[i] : i \in DOMAIN s}

\* s.findIndex((p) => p.name === name), 1-based; 0 when absent
FindIndex(s, name) ==
    IF \E i \in DOMAIN s : s[i].name = name
    THEN CHOOSE i \in DOMAIN s :
            s[i].name = name /\ \A j \in 1..(i - 1) : s[j].name # name
    ELSE 0

\* Array.prototype.join over strings
RECURSIVE Join(_, _)
Join(s, sep) ==
    IF s = <<>> THEN ""
    ELSE IF Len(s) = 1 THEN s[1]
    ELSE s[1] \o sep \o Join(Tail(s), sep)

-----------------------------------------------------------------------------
(* Registry and persisted configuration *)

OLLAMA == "Ollama (Local)"

\* registration order of the adapter singletons
providerInstances == <<"OpenAI", "OpenRouter", "Anthropic", OLLAMA>>

Registered == Range(providerInstances)

\* adapters that define enhanceChat
ChatCapable == {"OpenAI", "Anthropic"}

ProviderConfig(name, apiKey, model, enabled, priority) ==
    [name |-> name, apiKey |-> apiKey, model |-> model,
     enabled |-> enabled, priority |-> priority]

defaultProviders ==
    << ProviderConfig("OpenAI", "", "gpt-4o-mini", FALSE, 1),
       ProviderConfig("OpenRouter", "", "openai/gpt-4o-mini", FALSE, 2),
       ProviderConfig("Anthropic", "", "claude-3-sonnet-20240229", FALSE, 3),
       ProviderConfig(OLLAMA, "", "llama2", FALSE, 4) >>

\* ConfigManager.getProviders()
getProviders(cfg) == cfg

\* ConfigManager.getProviderApiKey(name): p?.apiKey ?? ''
getProviderApiKey(cfg, name) ==
    LET i == FindIndex(cfg, name)
    IN  IF i = 0 THEN "" ELSE cfg[i].apiKey

\* config.find((c) => c.name === name)?.model
FindModel(cfg, name) ==
    LET i == FindIndex(cfg, name)
    IN  IF i = 0 THEN Undefined ELSE cfg[i].model

\* { ...p, ...partial }: the fields of partial override those of p
Merge(p, partial) ==
    [f \in DOMAIN p \cup DOMAIN partial |->
        IF f \in DOMAIN partial THEN partial[f] ELSE p[f]]

\* updateProvider without the reordering: the partial is merged, nothing else
updateProviderNoShift(cfg, name, partial) ==
    LET idx == FindIndex(cfg, name)
        dflt == FindIndex(defaultProviders, name)
        base == IF dflt > 0 THEN defaultProviders[dflt]
                ELSE ProviderConfig(name, "", "", FALSE, Len(cfg) + 1)
    IN  IF idx > 0
        THEN [cfg EXCEPT ![idx] = Merge(cfg[idx], partial)]
        ELSE Append(cfg, [Merge(base, partial) EXCEPT !.name = name])

\* ConfigManager.updateProvider(name, partial)
updateProvider(cfg, name, partial) ==
    LET idx == FindIndex(cfg, name)
        toFirst == "priority" \in DOMAIN partial /\ partial.priority = 1 /\ idx > 0
        oldPriority == IF idx > 0 THEN cfg[idx].priority ELSE 0
        shifted ==
            IF toFirst /\ oldPriority # 1
            THEN [i \in DOMAIN cfg |->
                    IF i # idx /\ cfg[i].priority <= oldPriority /\ cfg[i].priority >= 1
                    THEN [cfg[i] EXCEPT !.priority = @ + 1]
                    ELSE cfg[i]]
            ELSE cfg
        dflt == FindIndex(defaultProviders, name)
        base == IF dflt > 0 THEN defaultProviders[dflt]
                ELSE ProviderConfig(name, "", "", FALSE, Len(cfg) + 1)
    IN  IF idx > 0
        THEN [shifted EXCEPT ![idx] = Merge(shifted[idx], partial)]
        ELSE Append(shifted, [Merge(base, partial) EXCEPT !.name = name])

-----------------------------------------------------------------------------
(* Adapter singletons *)

AdapterState(apiKey, model, client) ==
    [apiKey |-> apiKey, model |-> model, client |-> client]

\* field initialisers of the four adapter classes
InitialAdapters ==
    [n \in Registered |->
        CASE n = "OpenAI"     -> AdapterState("", "gpt-4o-mini", FALSE)
          [] n = "OpenRouter" -> AdapterState("", "anthropic/claude-3-sonnet", FALSE)
          [] n = "Anthropic"  -> AdapterState("", "claude-sonnet-4-20250514", FALSE)
          [] OTHER            -> AdapterState("", "llama2", FALSE)]

\* configure that takes the model and leaves the key as it was
configureModelOnly(name, a, apiKey, model) ==
    LET m == IF Truthy(model) THEN model ELSE a.model
    IN  CASE name = OLLAMA       -> [a EXCEPT !.model = m]
          [] name = "OpenRouter" -> [a EXCEPT !.model = m]
          [] OTHER               -> [a EXCEPT !.model = m, !.client = TRUE]

\* <adapter>.configure(apiKey, model?)
configure(name, a, apiKey, model) ==
    LET m == IF Truthy(model) THEN model ELSE a.model
    IN  CASE name = OLLAMA       -> [a EXCEPT !.model = m]
          [] name = "OpenRouter" -> [a EXCEPT !.apiKey = apiKey, !.model = m]
          [] OTHER               -> [a EXCEPT !.apiKey = apiKey, !.model = m,
                                              !.client = TRUE]

\* isConfigured reading the client alone
isConfiguredClientOnly(name, a) ==
    name = OLLAMA \/ a.client

\* <adapter>.isConfigured()
isConfigured(name, a) ==
    CASE name = OLLAMA       -> TRUE
      [] name = "OpenRouter" -> a.apiKey # ""
      [] OTHER               -> a.client /\ a.apiKey # ""

\* the guard at the head of <adapter>.enhance / enhanceChat: the message of
\* the error thrown before any backend call, "" when the call goes out
NotConfiguredError(name, a) ==
    CASE name = OLLAMA       -> ""
      [] name = "OpenRouter" ->
            IF a.apiKey = "" THEN "OpenRouter provider not configured" ELSE ""
      [] OTHER               ->
            IF ~a.client THEN name \o " provider not configured" ELSE ""

\* the label each adapter puts in front of a backend error
ErrorLabel(name) == IF name = OLLAMA THEN "Ollama" ELSE name

\* catch (err) { throw new Error(`<X> enhancement failed: ${msg}`) }
EnhanceError(name, msg) == ErrorLabel(name) \o " enhancement failed: " \o msg

\* the suggestions an adapter builds from a backend response; usable is
\* whether the response holds a choice with non-empty content
Suggestions(name, type, usable) ==
    IF name = "OpenAI"
    THEN IF usable THEN <<[text |-> "enhanced", type |-> type]>> ELSE <<>>
    ELSE <<[text |-> IF usable THEN "enhanced" ELSE "", type |-> type]>>

\* the EnhancementResult returned by <adapter>.enhance; processingTime is
\* Date.now() - startTime, with startTime taken at the head of enhance
EnhancementResult(name, text, type, usable, processingTime) ==
    [original |-> text, suggestions |-> Suggestions(name, type, usable),
     provider |-> name, processingTime |-> processingTime]

-----------------------------------------------------------------------------
(* Texts.  A text is a string given by an explicit body followed by n      *)
(* copies of one fill character, so that texts around the 10,000 character *)
(* limit can be written down; a request may also carry a value that is     *)
(* no string.  Positions are 0-based as in JavaScript.                     *)

Str(body, fill, n) == [type |-> "string", body |-> body, fill |-> fill, n |-> n]

NonString(type) == [type |-> type, body |-> <<>>, fill |-> "x", n |-> 0]

Length(t) == Len(t.body) + t.n

\* the character at position i, "" outside the string
At(t, i) ==
    IF i < 0 \/ i >= Length(t) THEN ""
    ELSE IF i < Len(t.body) THEN t.body[i + 1] ELSE t.fill

IsSpace(ch) == ch = " "

IsDigit(ch) == ch \in {"0", "1", "2", "3", "4", "5", "6", "7", "8", "9"}

\* \w
IsWordChar(ch) == IsDigit(ch) \/ ch \in {"a", "b", "h", "i", "x", "_"}

\* String.prototype.trim
RECURSIVE TrimLeft(_)
TrimLeft(s) == IF s # <<>> /\ IsSpace(Head(s)) THEN TrimLeft(Tail(s)) ELSE s

RECURSIVE TrimRight(_)
TrimRight(s) ==
    IF s # <<>> /\ IsSpace(s[Len(s)]) THEN TrimRight(SubSeq(s, 1, Len(s) - 1)) ELSE s

Trim(t) ==
    IF t.n = 0 THEN Str(TrimLeft(TrimRight(t.body)), t.fill, 0)
    ELSE IF IsSpace(t.fill) THEN Str(TrimLeft(TrimRight(t.body)), t.fill, 0)
    ELSE IF TrimLeft(t.body) = <<>> THEN Str(<<>>, t.fill, t.n)
    ELSE Str(TrimLeft(t.body), t.fill, t.n)

-----------------------------------------------------------------------------
(* Privacy gate: the two global regular expressions of SENSITIVE_PATTERNS  *)

\* \b at position i
WordBoundary(t, i) == IsWordChar(At(t, i - 1)) # IsWordChar(At(t, i))

\* \d{k} at position i
DigitsAt(t, i, k) == \A j \in 0..(k - 1) : IsDigit(At(t, i + j))

\* [\s-]? at position i: the number of characters it takes
SepAt(t, i) == IF At(t, i) \in {" ", "-"} THEN 1 ELSE 0

\* /\b\d{4}[\s-]?\d{4}[\s-]?\d{4}[\s-]?\d{4}\b/ anchored at i: the end of
\* the match, -1 when there is none
MatchCard(t, i) ==
    LET p1 == i + 4 + SepAt(t, i + 4)
        p2 == p1 + 4 + SepAt(t, p1 + 4)
        p3 == p2 + 4 + SepAt(t, p2 + 4)
        e  == p3 + 4
    IN  IF /\ WordBoundary(t, i)
           /\ DigitsAt(t, i, 4) /\ DigitsAt(t, p1, 4)
           /\ DigitsAt(t, p2, 4) /\ DigitsAt(t, p3, 4)
           /\ WordBoundary(t, e)
        THEN e ELSE -1

\* /\b\d{3}-\d{2}-\d{4}\b/ anchored at i
MatchSsn(t, i) ==
    IF /\ WordBoundary(t, i)
       /\ DigitsAt(t, i, 3) /\ At(t, i + 3) = "-"
       /\ DigitsAt(t, i + 4, 2) /\ At(t, i + 6) = "-"
       /\ DigitsAt(t, i + 7, 4)
       /\ WordBoundary(t, i + 11)
    THEN i + 11 ELSE -1

MatchAt(k, t, i) == IF k = 1 THEN MatchCard(t, i) ELSE MatchSsn(t, i)

\* RegExp.prototype.test of the global pattern k whose lastIndex is li: the
\* search starts at li; a match leaves lastIndex at its end, a failure
\* resets it to 0.  A match starts on a digit, so only the body is scanned.
RegExpTest(k, t, li) ==
    LET starts == {i \in li..Len(t.body) : MatchAt(k, t, i) >= 0}
        first  == CHOOSE i \in starts : \A j \in starts : i <= j
    IN  IF li > Length(t) \/ starts = {}
        THEN [found |-> FALSE, lastIndex |-> 0]
        ELSE [found |-> TRUE, lastIndex |-> MatchAt(k, t, first)]

\* PrivacyManager.containsSensitiveData(text) = SENSITIVE_PATTERNS.some(p =>
\* p.test(text)): the second pattern is tested only when the first fails
containsSensitiveData(t, li) ==
    LET r1 == RegExpTest(1, t, li[1])
        r2 == RegExpTest(2, t, li[2])
    IN  IF r1.found
        THEN [found |-> TRUE, lastIndex |-> <<r1.lastIndex, li[2]>>]
        ELSE [found |-> r2.found, lastIndex |-> <<r1.lastIndex, r2.lastIndex>>]

-----------------------------------------------------------------------------
(* ProviderManager.enhanceWithFallback *)

NoResult ==
    [original |-> NonString("undefined"), suggestions |-> <<>>, provider |-> "",
     processingTime |-> 0]

\* how an enhanceWithFallback call ended: a returned EnhancementResult or a
\* thrown Error with its message and the code and errors attached to it
NoOutcome ==
    [kind |-> "none", message |-> "", code |-> Undefined, errors |-> <<>>,
     result |-> NoResult]

Returned(result) == [NoOutcome EXCEPT !.kind = "returned", !.result = result]

Thrown(message, code, errors) ==
    [NoOutcome EXCEPT !.kind = "thrown", !.message = message, !.code = code,
                      !.errors = errors]

\* the answer of the ai:enhance handler: an EnhancementResult or an envelope
NoResponse ==
    [kind |-> "none", error |-> "", code |-> "", errors |-> <<>>, result |-> NoResult]

IdleCall ==
    [pc |-> "idle", text |-> NonString("undefined"), type |-> "",
     orchestrated |-> FALSE, config |-> <<>>, ordered |-> <<>>, idx |-> 0,
     fate |-> "", early |-> "", errors |-> <<>>, attempted |-> <<>>,
     invoked |-> <<>>, methods |-> {}, outcome |-> NoOutcome,
     resp |-> NoResponse,
     \* the key read in the loop and the key and model held by the adapter, at
     \* each invocation of enhance
     used |-> <<>>,
     \* number of saves made when the call started
     epoch |-> 0,
     \* Date.now() - startTime, and its value when the pending enhance began
     clock |-> 0, attemptStart |-> 0]

TimeoutMessage == "Request timeout"

NoProvidersMessage ==
    "No configured providers available. Please add and enable at least one AI provider in Settings."

\* Eligible without the credential test
EligibleEnabledOnly(c) == c.enabled

\* the filter of the candidate selection
Eligible(c) == c.enabled /\ (c.name = OLLAMA \/ (c.apiKey # Undefined /\ c.apiKey # ""))

\* InsertByPriority of a sort that is not stable: an element is placed before
\* the elements of equal priority already sorted
RECURSIVE InsertByPriorityUnstable(_, _)
InsertByPriorityUnstable(s, x) ==
    IF s = <<>> THEN <<x>>
    ELSE IF s[Len(s)].priority < x.priority THEN Append(s, x)
    ELSE Append(InsertByPriorityUnstable(SubSeq(s, 1, Len(s) - 1), x), s[Len(s)])

\* Array.prototype.sort((a, b) => a.priority - b.priority): a stable sort
RECURSIVE InsertByPriority(_, _)
InsertByPriority(s, x) ==
    IF s = <<>> THEN <<x>>
    ELSE IF s[Len(s)].priority <= x.priority THEN Append(s, x)
    ELSE Append(InsertByPriority(SubSeq(s, 1, Len(s) - 1), x), s[Len(s)])

RECURSIVE SortByPriority(_)
SortByPriority(s) ==
    IF s = <<>> THEN <<>>
    ELSE InsertByPriority(SortByPriority(SubSeq(s, 1, Len(s) - 1)), s[Len(s)])

\* Ordered without its sort: the candidates in configuration order
OrderedUnsorted(cfg) ==
    LET kept == SelectSeq(cfg, Eligible)
    IN  [i \in DOMAIN kept |-> kept[i].name]

\* config.filter(...).sort(...).map((c) => c.name)
Ordered(cfg) ==
    LET sorted == SortByPriority(SelectSeq(cfg, Eligible))
    IN  [i \in DOMAIN sorted |-> sorted[i].name]

\* ProviderManager.applyConfig(): configure every registered adapter named
\* in the configuration; the local adapter gets an empty credential
RECURSIVE applyConfig(_, _)
applyConfig(cfg, ad) ==
    IF cfg = <<>> THEN ad
    ELSE LET pc == Head(cfg)
             key == IF pc.name = OLLAMA THEN "" ELSE pc.apiKey
         IN  IF pc.name \notin Registered THEN applyConfig(Tail(cfg), ad)
             ELSE applyConfig(Tail(cfg),
                    [ad EXCEPT ![pc.name] = configure(pc.name, @, key, pc.model)])

\* the adapter methods applyConfig invokes
ApplyConfigMethods(cfg) ==
    {<<cfg[i].name, "configure">> : i \in {j \in DOMAIN cfg : cfg[j].name \in Registered}}

FailureRecord(provider, error) == [provider |-> provider, error |-> error]

\* errors.map((e) => `${e.provider}: ${e.error.message}`).join('; ')
ErrorMessages(errors) ==
    Join([i \in DOMAIN errors |-> errors[i].provider \o ": " \o errors[i].error], "; ")

\* the composite error thrown when the loop ends without a success
AllFailed(ordered, errors) ==
    Thrown("All " \o ToString(Len(ordered)) \o " provider(s) failed. "
               \o ErrorMessages(errors),
           "ALL_PROVIDERS_FAILED",
           [i \in DOMAIN errors |-> FailureRecord(errors[i].provider, errors[i].error)])

\* errors.push({provider, error, timestamp}) by a guard of the loop body: the
\* candidate at position i is given up without a call to its enhance
PushError(call, i, message) ==
    [call EXCEPT !.errors = Append(@, FailureRecord(call.ordered[i], message)),
                 !.attempted = Append(@, call.ordered[i])]

\* CatchError keeping only the last error, as a lastError variable would
CatchErrorLastOnly(call, message) ==
    [call EXCEPT !.errors = <<FailureRecord(call.ordered[call.idx], message)>>]

\* errors.push({provider, error, timestamp}) by the catch block: the awaited
\* race of the candidate at position idx was rejected
CatchError(call, message) ==
    [call EXCEPT !.errors = Append(@, FailureRecord(call.ordered[call.idx], message))]

\* The for loop of enhanceWithFallback from candidate i on, run until it
\* suspends on the race of an adapter's enhance with the timer, or ends.
\* liveCfg is the store as it is now (getProviderApiKey re-reads it), fate is
\* whether the adapter call that goes out will ever settle.
RECURSIVE Loop(_, _, _, _, _)
Loop(call, ad, liveCfg, i, fate) ==
    IF i > Len(call.ordered)
    THEN [call |-> [call EXCEPT !.pc = "thrown", !.idx = i,
                                !.outcome = AllFailed(call.ordered, call.errors)],
          adapters |-> ad]
    ELSE
    LET name == call.ordered[i]
        key  == getProviderApiKey(liveCfg, name)
    IN  IF name \notin Registered
        THEN Loop(PushError(call, i, "Provider not found"), ad, liveCfg, i + 1, fate)
        ELSE IF name # OLLAMA /\ ~Truthy(key)
        THEN Loop(PushError(call, i, "API key not configured"), ad, liveCfg, i + 1, fate)
        ELSE
        LET a2 == IF name = OLLAMA
                  THEN configure(name, ad[name], "", Undefined)
                  ELSE configure(name, ad[name], key, FindModel(call.config, name))
            ad2 == [ad EXCEPT ![name] = a2]
            c2  == [call EXCEPT !.methods =
                        @ \cup {<<name, "configure">>, <<name, "isConfigured">>}]
        IN  IF ~isConfigured(name, a2)
            THEN Loop(PushError(c2, i, "Provider not properly configured"),
                      ad2, liveCfg, i + 1, fate)
            ELSE [call |-> [c2 EXCEPT !.pc = "awaiting", !.idx = i,
                                      !.fate = fate,
                                      !.early = NotConfiguredError(name, a2),
                                      !.attempted = Append(@, name),
                                      !.invoked = Append(@, name),
                                      !.methods = @ \cup {<<name, "enhance">>},
                                      !.used = Append(@,
                                          [provider |-> name, key |-> key,
                                           apiKey |-> a2.apiKey, model |-> a2.model]),
                                      !.attemptStart = call.clock],
                  adapters |-> ad2]

\* enhanceWithFallback without the empty-candidate check
enhanceWithFallbackNoFastPath(call, cfg, ad, fate) ==
    Loop([call EXCEPT !.orchestrated = TRUE,
                      !.config = getProviders(cfg),
                      !.ordered = Ordered(getProviders(cfg)),
                      !.methods = @ \cup ApplyConfigMethods(cfg)],
         applyConfig(cfg, ad), cfg, 1, fate)

\* enhanceWithFallback(text, options) up to its first suspension
enhanceWithFallback(call, cfg, ad, fate) ==
    LET ad1 == applyConfig(cfg, ad)
        c1  == [call EXCEPT !.orchestrated = TRUE,
                            !.config = getProviders(cfg),
                            !.ordered = Ordered(getProviders(cfg)),
                            !.methods = @ \cup ApplyConfigMethods(cfg)]
    IN  IF Len(c1.ordered) = 0
        THEN [call |-> [c1 EXCEPT !.pc = "thrown",
                                  !.outcome = Thrown(NoProvidersMessage, Undefined, <<>>)],
              adapters |-> ad1]
        ELSE Loop(c1, ad1, cfg, 1, fate)

\* AfterFailure trying the failed candidate again
AfterFailureRetry(call, ad, liveCfg, message, fate) ==
    Loop(CatchError(call, message), ad, liveCfg, call.idx, fate)

\* AfterFailure resolving the keys from the configuration the call read at
\* its start instead of the store
AfterFailureSnapshotKey(call, ad, liveCfg, message, fate) ==
    Loop(CatchError(call, message), ad, call.config, call.idx + 1, fate)

\* the catch block of the loop: record the failure, go on with the next
\* candidate
AfterFailure(call, ad, liveCfg, message, fate) ==
    Loop(CatchError(call, message), ad, liveCfg, call.idx + 1, fate)

\* AfterSuccess relabelling the result with the first candidate's name
AfterSuccessRelabelled(call, result) ==
    [call EXCEPT !.pc = "returned",
                 !.outcome = Returned([result EXCEPT !.provider = call.ordered[1]])]

\* the awaited race resolved with the adapter's result
AfterSuccess(call, result) ==
    [call EXCEPT !.pc = "returned", !.outcome = Returned(result)]

-----------------------------------------------------------------------------
(* The 'ai:enhance' handler *)

MaxTextLength == 10000

\* !text || typeof text !== 'string' || text.trim().length === 0
NoText(t) == t.type # "string" \/ Length(t) = 0 \/ Length(Trim(t)) = 0

ErrorEnvelope(code, message, errors) ==
    [NoResponse EXCEPT !.kind = "error", !.code = code, !.error = message,
                       !.errors = errors]

\* Finish reporting every error as ENHANCEMENT_FAILED, without its details
FinishCodeDropped(call) ==
    IF call.pc = "returned"
    THEN [call EXCEPT !.pc = "done",
                      !.resp = [NoResponse EXCEPT !.kind = "result",
                                                  !.result = call.outcome.result]]
    ELSE IF call.pc = "thrown"
    THEN [call EXCEPT !.pc = "done",
                      !.resp = ErrorEnvelope("ENHANCEMENT_FAILED",
                                             call.outcome.message, <<>>)]
    ELSE call

\* the return of the handler once enhanceWithFallback has returned or thrown
Finish(call) ==
    IF call.pc = "returned"
    THEN [call EXCEPT !.pc = "done",
                      !.resp = [NoResponse EXCEPT !.kind = "result",
                                                  !.result = call.outcome.result]]
    ELSE IF call.pc = "thrown"
    THEN [call EXCEPT !.pc = "done",
                      !.resp = ErrorEnvelope(
                                 IF Truthy(call.outcome.code) THEN call.outcome.code
                                 ELSE "ENHANCEMENT_FAILED",
                                 call.outcome.message, call.outcome.errors)]
    ELSE call

\* HandleEnhance with the privacy gate ahead of the length check
HandleEnhancePrivacyFirst(text, type, cfg, ad, li, fate) ==
    LET call == [IdleCall EXCEPT !.text = text, !.type = type]
        rejected(code, message) ==
            [call |-> [call EXCEPT !.pc = "done",
                                   !.resp = ErrorEnvelope(code, message, <<>>)],
             adapters |-> ad, lastIndex |-> li]
        privacy == containsSensitiveData(text, li)
        started == enhanceWithFallback(call, cfg, ad, fate)
    IN  IF NoText(text)
        THEN rejected("NO_TEXT_SELECTED",
                      "No text selected. Please select some text and try again.")
        ELSE IF privacy.found
        THEN [rejected("SENSITIVE_DATA",
                       "Text contains sensitive information (credit cards, SSN, etc.).")
                EXCEPT !.lastIndex = privacy.lastIndex]
        ELSE IF Length(text) > MaxTextLength
        THEN [rejected("TEXT_TOO_LONG",
                       "Selected text is too long (maximum 10,000 characters).")
                EXCEPT !.lastIndex = privacy.lastIndex]
        ELSE [call |-> Finish(started.call), adapters |-> started.adapters,
              lastIndex |-> privacy.lastIndex]

\* the handler up to its first suspension: the three input checks, then the
\* call of enhanceWithFallback
HandleEnhance(text, type, cfg, ad, li, fate) ==
    LET call == [IdleCall EXCEPT !.text = text, !.type = type]
        rejected(code, message) ==
            [call |-> [call EXCEPT !.pc = "done",
                                   !.resp = ErrorEnvelope(code, message, <<>>)],
             adapters |-> ad, lastIndex |-> li]
        privacy == containsSensitiveData(text, li)
        started == enhanceWithFallback(call, cfg, ad, fate)
    IN  IF NoText(text)
        THEN rejected("NO_TEXT_SELECTED",
                      "No text selected. Please select some text and try again.")
        ELSE IF Length(text) > MaxTextLength
        THEN rejected("TEXT_TOO_LONG",
                      "Selected text is too long (maximum 10,000 characters).")
        ELSE IF privacy.found
        THEN [rejected("SENSITIVE_DATA",
                       "Text contains sensitive information (credit cards, SSN, etc.).")
                EXCEPT !.lastIndex = privacy.lastIndex]
        ELSE [call |-> Finish(started.call), adapters |-> started.adapters,
              lastIndex |-> privacy.lastIndex]

-----------------------------------------------------------------------------
(* Inputs *)

Fates == {"settles", "hangs"}

\* messages of the errors a backend call fails with
BackendErrors == {"unauthorized", "rate limited"}

Hi == <<"h", "i">>

Card == <<"4", "1", "1", "1", "-", "1", "1", "1", "1", "-",
          "1", "1", "1", "1", "-", "1", "1", "1", "1">>

Ssn == <<"1", "2", "3", "-", "4", "5", "-", "6", "7", "8", "9">>

PlainText == Str(Hi, "x", 0)

\* texts the input checks let through
PlainTexts == {PlainText, Str(Hi, "x", MaxTextLength - 2)}

SensitiveTexts ==
    {Str(Card, "x", 0), Str(Ssn, "x", 0), Str(Hi \o <<" ">> \o Ssn, "x", 0),
     Str(Ssn \o <<" ">> \o Card, "x", 0)}

Texts ==
    PlainTexts \cup SensitiveTexts \cup
    {NonString("undefined"), NonString("number"),
     Str(<<>>, "x", 0), Str(<<" ", " ">>, "x", 0),
     Str(<<>>, " ", MaxTextLength + 1),
     Str(Hi, "x", MaxTextLength - 1),
     Str(Card, " ", MaxTextLength),
     Str(<<"1", "2", "3", "4">>, "x", 0)}

Types == {"rephrase", "formal"}

\* partial updates the settings panel saves
Partials ==
    {[enabled |-> TRUE], [enabled |-> FALSE], [apiKey |-> ""], [priority |-> 1],
     [apiKey |-> "sk-2", enabled |-> TRUE]}

\* "Custom" is a name no adapter is registered under
SaveNames == {"OpenRouter", "Custom"}

-----------------------------------------------------------------------------
(* The chat path: ipcMain.handle('chat:send-message').  It walks the        *)
(* enabled descriptors itself and calls the adapters through                *)
(* enhanceWithProvider; it configures no adapter and sets no timer.         *)

MaxMessageLength == 10000

\* DEFAULT_CHAT_CONFIG
DefaultMaxTokens == 1000

ChatConfig(responseStyle, contextAwareness) ==
    [responseStyle |-> responseStyle, contextAwareness |-> contextAwareness,
     maxTokens |-> DefaultMaxTokens]

\* chatManager.getMaxTokens()
getMaxTokens(activeConfig) ==
    IF activeConfig.maxTokens # DefaultMaxTokens THEN activeConfig.maxTokens
    ELSE CASE activeConfig.responseStyle = "concise"  -> 500
           [] activeConfig.responseStyle = "detailed" -> 2000
           [] OTHER                                   -> 1000

\* chatManager.buildSystemPrompt(): a text that starts "You are a helpful
\* AI assistant. "; only its first word is kept
SystemPrompt == Str(<<"Y", "o", "u">>, "x", 0)

ChatMessage(role, content) == [role |-> role, content |-> content]

\* KeepNewest passing over a message that does not fit instead of stopping
RECURSIVE KeepNewestSkipping(_, _, _, _)
KeepNewestSkipping(messages, i, totalChars, targetChars) ==
    IF i = 0 THEN <<>>
    ELSE IF totalChars + Length(messages[i].content) > targetChars
    THEN KeepNewestSkipping(messages, i - 1, totalChars, targetChars)
    ELSE Append(KeepNewestSkipping(messages, i - 1,
                                   totalChars + Length(messages[i].content),
                                   targetChars),
                messages[i])

\* the loop of optimizeContext: from message i down to the oldest, stop at
\* the first message that does not fit
RECURSIVE KeepNewest(_, _, _, _)
KeepNewest(messages, i, totalChars, targetChars) ==
    IF i = 0 THEN <<>>
    ELSE IF totalChars + Length(messages[i].content) > targetChars THEN <<>>
    ELSE Append(KeepNewest(messages, i - 1,
                           totalChars + Length(messages[i].content), targetChars),
                messages[i])

optimizeContext(messages, maxTokens) ==
    KeepNewest(messages, Len(messages), 0, maxTokens * 4)

\* the message list of a request: the system prompt, the history that fits
\* (every role but assistant becomes user), the current trimmed message
BuildMessages(request, activeConfig) ==
    LET history == IF activeConfig.contextAwareness /\ request.useContext
                   THEN optimizeContext(request.conversationHistory,
                                        getMaxTokens(activeConfig))
                   ELSE <<>>
        mapped  == [i \in DOMAIN history |->
                       ChatMessage(IF history[i].role = "assistant"
                                   THEN "assistant" ELSE "user",
                                   history[i].content)]
    IN  <<ChatMessage("system", SystemPrompt)>> \o mapped
            \o <<ChatMessage("user", Trim(request.message))>>

\* ConfigManager.getProviders().filter(p => p.enabled).sort(...)
Enabled(p) == p.enabled

ProviderConfigs(cfg) ==
    LET sorted == SortByPriority(SelectSeq(cfg, Enabled))
    IN  [i \in DOMAIN sorted |-> sorted[i].name]

IsUser(m) == m.role = "user"

\* the content of the first user message
FirstUserMessage(messages) ==
    LET users == SelectSeq(messages, IsUser)
    IN  IF users = <<>> THEN Str(<<>>, "x", 0) ELSE users[1].content

\* messages.filter(m => m.role === 'user').pop()?.content || ''
LastUserMessage(messages) ==
    LET users == SelectSeq(messages, IsUser)
    IN  IF users = <<>> THEN Str(<<>>, "x", 0) ELSE users[Len(users)].content

\* the adapter call enhanceWithProvider makes: enhanceChat with the whole
\* list when the adapter has the method, enhance with one text otherwise
AdapterCall(name, messages) ==
    IF name \in ChatCapable
    THEN [provider |-> name, method |-> "enhanceChat", messages |-> messages,
          text |-> NonString("undefined")]
    ELSE [provider |-> name, method |-> "enhance", messages |-> <<>>,
          text |-> LastUserMessage(messages)]

\* the text enhanceWithProvider returns for a backend response
ChatText(name, usable) ==
    IF name \in ChatCapable
    THEN IF usable THEN "enhanced" ELSE ""
    ELSE LET suggestions == Suggestions(name, "rephrase", usable)
         IN  IF suggestions = <<>> THEN "" ELSE suggestions[1].text

ChatEnhanceError(name, msg) ==
    IF name \in ChatCapable
    THEN name \o " chat enhancement failed: " \o msg
    ELSE EnhanceError(name, msg)

NoChatResponse == [kind |-> "none", message |-> "", code |-> "", provider |-> ""]

ChatResponse(text, name) ==
    [kind |-> "response", message |-> text, code |-> "", provider |-> name]

ChatError(message, code) ==
    [kind |-> "error", message |-> message, code |-> code, provider |-> ""]

DefaultChatConfig == ChatConfig("balanced", TRUE)

NoChat ==
    [pc |-> "idle", activeConfig |-> DefaultChatConfig,
     message |-> NonString("undefined"), messages |-> <<>>,
     providerConfigs |-> <<>>, idx |-> 0, fate |-> "", early |-> "",
     failedProviders |-> <<>>, lastError |-> Undefined, log |-> <<>>,
     resp |-> NoChatResponse,
     \* the list ConfigManager.getProviders() returned to the request, and the
     \* key and model the adapter held at each invocation
     config |-> <<>>, used |-> <<>>,
     \* request.conversationHistory and request.useContext
     conversationHistory |-> <<>>, useContext |-> FALSE]

\* the provider loop up to its next suspension
RECURSIVE ChatLoop(_, _, _, _)
ChatLoop(ch, ad, i, fate) ==
    IF i > Len(ch.providerConfigs)
    THEN [ch EXCEPT !.pc = "done", !.idx = i,
                    !.resp = ChatError(
                        "All " \o ToString(Len(ch.providerConfigs))
                            \o " provider(s) failed. Last error: "
                            \o (IF Truthy(ch.lastError) THEN ch.lastError
                                ELSE "Unknown error"),
                        "ALL_PROVIDERS_FAILED")]
    ELSE
    LET name == ch.providerConfigs[i]
    IN  IF name \notin Registered
        THEN ChatLoop(ch, ad, i + 1, fate)
        ELSE [ch EXCEPT !.pc = "awaiting", !.idx = i, !.fate = fate,
                        !.early = NotConfiguredError(name, ad[name]),
                        !.log = Append(@, AdapterCall(name, ch.messages)),
                        !.used = Append(@, [provider |-> name,
                                            apiKey |-> ad[name].apiKey,
                                            model |-> ad[name].model])]

\* the handler up to its first suspension
HandleChat(ch, request, cfg, ad, fate) ==
    LET rejected(message) ==
            [ch EXCEPT !.pc = "done", !.message = request.message,
                       !.resp = ChatError(message, "CHAT_ERROR")]
        trimmedMessage == Trim(request.message)
        c1 == [ch EXCEPT !.message = request.message,
                         !.config = getProviders(cfg),
                         !.conversationHistory = request.conversationHistory,
                         !.useContext = request.useContext,
                         !.messages = BuildMessages(request, ch.activeConfig),
                         !.providerConfigs = ProviderConfigs(getProviders(cfg))]
    IN  IF request.message.type # "string" \/ Length(request.message) = 0
        THEN rejected("Message is required and must be a string")
        ELSE IF Length(trimmedMessage) = 0
        THEN rejected("Message cannot be empty")
        ELSE IF Length(trimmedMessage) > MaxMessageLength
        THEN rejected("Message is too long (maximum 10,000 characters)")
        ELSE IF Len(c1.providerConfigs) = 0
        THEN [c1 EXCEPT !.pc = "done",
                        !.resp = ChatError("No AI provider configured", "NO_PROVIDER")]
        ELSE ChatLoop(c1, ad, 1, fate)

-----------------------------------------------------------------------------
(* Actions *)

\* ipcMain.handle('ai:enhance'): a request arrives
AiEnhance(c, text, type, fate) ==
    /\ calls[c].pc = "idle"
    /\ \A d \in 1..(c - 1) : calls[d].pc # "idle"
    /\ LET r == HandleEnhance(text, type, config, adapters, lastIndex, fate)
       IN  /\ calls' = [calls EXCEPT ![c] = [r.call EXCEPT !.epoch = saves]]
           /\ adapters' = r.adapters
           /\ lastIndex' = r.lastIndex
    /\ UNCHANGED <<config, chat, saves, configured, test>>

\* Respond remembering the provider that answered: it is moved to the first
\* place of the stored list
RespondPromoting(c, usable) ==
    /\ calls[c].pc = "awaiting"
    /\ calls[c].fate = "settles"
    /\ calls[c].early = ""
    /\ LET call == calls[c]
           name == call.ordered[call.idx]
       IN  /\ calls' = [calls EXCEPT ![c] =
                  Finish(AfterSuccess(call,
                      EnhancementResult(name, call.text, call.type, usable,
                                        call.clock - call.attemptStart)))]
           /\ config' = updateProvider(config, name, [priority |-> 1])
    /\ UNCHANGED <<adapters, lastIndex, chat, saves, configured, test>>

\* the awaited adapter call resolves with a backend response
Respond(c, usable) ==
    /\ calls[c].pc = "awaiting"
    /\ calls[c].fate = "settles"
    /\ calls[c].early = ""
    /\ LET call == calls[c]
           name == call.ordered[call.idx]
       IN  calls' = [calls EXCEPT ![c] =
                Finish(AfterSuccess(call,
                    EnhancementResult(name, call.text, call.type, usable,
                                      call.clock - call.attemptStart)))]
    /\ UNCHANGED <<config, adapters, lastIndex, chat, saves, configured, test>>

\* Throw with a breaker that disables the failed provider in the store
ThrowDisabling(c, msg) ==
    /\ calls[c].pc = "awaiting"
    /\ calls[c].fate = "settles"
    /\ LET call == calls[c]
           name == call.ordered[call.idx]
           message == IF call.early # "" THEN call.early ELSE EnhanceError(name, msg)
       IN  /\ config' = updateProvider(config, name, [enabled |-> FALSE])
           /\ \E fate \in Fates :
                LET r == AfterFailure(call, adapters, config, message, fate)
                IN  /\ calls' = [calls EXCEPT ![c] = Finish(r.call)]
                    /\ adapters' = r.adapters
    /\ UNCHANGED <<lastIndex, chat, saves, configured, test>>

\* the awaited adapter call is rejected: by the adapter's own guard, or
\* with a backend error
Throw(c, msg) ==
    /\ calls[c].pc = "awaiting"
    /\ calls[c].fate = "settles"
    /\ LET call == calls[c]
           name == call.ordered[call.idx]
           message == IF call.early # "" THEN call.early ELSE EnhanceError(name, msg)
       IN  \E fate \in Fates :
             LET r == AfterFailure(call, adapters, config, message, fate)
             IN  /\ calls' = [calls EXCEPT ![c] = Finish(r.call)]
                 /\ adapters' = r.adapters
    /\ UNCHANGED <<config, lastIndex, chat, saves, configured, test>>

\* Timeout of a loop that awaits the adapter call alone, without the race
TimeoutNever(c) ==
    /\ calls[c].pc = "awaiting"
    /\ FALSE
    /\ UNCHANGED vars

\* the 60 s timer of the race fires before the adapter call has settled
Timeout(c) ==
    /\ calls[c].pc = "awaiting"
    /\ calls[c].early = ""
    /\ \E fate \in Fates :
         LET r == AfterFailure(calls[c], adapters, config, TimeoutMessage, fate)
         IN  /\ calls' = [calls EXCEPT ![c] = Finish(r.call)]
             /\ adapters' = r.adapters
    /\ UNCHANGED <<config, lastIndex, chat, saves, configured, test>>

\* ipcMain.handle('chat:send-message'): a chat request arrives
ChatSendMessage(request, fate) ==
    /\ chat.pc = "idle"
    /\ chat' = HandleChat(chat, request, config, adapters, fate)
    /\ UNCHANGED <<config, adapters, lastIndex, calls, saves, configured, test>>

\* the awaited adapter call of the chat loop resolves
ChatRespond(usable) ==
    /\ chat.pc = "awaiting"
    /\ chat.fate = "settles"
    /\ chat.early = ""
    /\ LET name == chat.providerConfigs[chat.idx]
       IN  chat' = [chat EXCEPT !.pc = "done",
                                !.resp = ChatResponse(ChatText(name, usable), name)]
    /\ UNCHANGED <<config, adapters, lastIndex, calls, saves, configured, test>>

\* the awaited adapter call of the chat loop is rejected
ChatThrow(msg) ==
    /\ chat.pc = "awaiting"
    /\ chat.fate = "settles"
    /\ LET name == chat.providerConfigs[chat.idx]
           message == IF chat.early # "" THEN chat.early
                      ELSE ChatEnhanceError(name, msg)
           failed == [chat EXCEPT
                        !.failedProviders = Append(@, [name |-> name, error |-> message]),
                        !.lastError = message]
       IN  \E fate \in Fates :
             chat' = ChatLoop(failed, adapters, chat.idx + 1, fate)
    /\ UNCHANGED <<config, adapters, lastIndex, calls, saves, configured, test>>

\* ipcMain.handle('config:save-provider')
SaveProvider(name, partial) ==
    /\ saves < MaxSaves
    /\ config' = updateProvider(config, name, partial)
    /\ saves' = saves + 1
    /\ UNCHANGED <<adapters, lastIndex, calls, chat, configured, test>>

\* ipcMain.handle('config:set'): ConfigManager.setAll replaces the stored
\* configuration, its provider list included
ConfigSet(providers) ==
    /\ saves < MaxSaves
    /\ config' = providers
    /\ saves' = saves + 1
    /\ UNCHANGED <<adapters, lastIndex, calls, chat, configured, test>>

NotAsked == [asked |-> FALSE, result |-> <<>>, store |-> <<>>]

\* ProviderManager.getConfiguredProviders(): the adapters after applyConfig
\* and the registered names whose adapter reports isConfigured()
getConfiguredProviders(cfg, ad) ==
    LET applied == applyConfig(getProviders(cfg), ad)
        Configured(name) == isConfigured(name, applied[name])
    IN  [adapters |-> applied, result |-> SelectSeq(providerInstances, Configured)]

\* a caller asks the registry for the configured providers; the answer is
\* kept together with the configuration that was stored at that moment
GetConfiguredProviders ==
    /\ LET r == getConfiguredProviders(config, adapters)
       IN  /\ adapters' = r.adapters
           /\ configured' = [asked |-> TRUE, result |-> r.result, store |-> config]
    /\ UNCHANGED <<config, lastIndex, calls, chat, saves, test>>

\* the ai:test-provider request: not made yet, awaiting testConnection(),
\* or answered; configured is whether the handler called configure, with
\* apiKey and model, on the adapter, which was in state before
NoTest ==
    [pc |-> "idle", name |-> "", configured |-> FALSE, apiKey |-> "",
     model |-> Undefined, before |-> AdapterState("", "", FALSE),
     success |-> FALSE, error |-> ""]

\* ipcMain.handle('ai:test-provider') up to the await of testConnection():
\* the adapter is configured from the stored descriptor, the local backend
\* with configure('')
TestProvider(name) ==
    /\ test.pc # "awaiting"
    /\ IF name \notin Registered
       THEN /\ test' = [NoTest EXCEPT !.pc = "done", !.name = name,
                                      !.error = "Provider not found"]
            /\ UNCHANGED adapters
       ELSE LET i      == FindIndex(config, name)
                apiKey == IF name = OLLAMA THEN "" ELSE config[i].apiKey
                model  == IF name = OLLAMA THEN Undefined ELSE config[i].model
            IN  IF name # OLLAMA /\ i = 0
                THEN /\ test' = [NoTest EXCEPT !.pc = "awaiting", !.name = name,
                                               !.before = adapters[name]]
                     /\ UNCHANGED adapters
                ELSE /\ adapters' = [adapters EXCEPT
                                        ![name] = configure(name, @, apiKey, model)]
                     /\ test' = [NoTest EXCEPT !.pc = "awaiting", !.name = name,
                                               !.configured = TRUE,
                                               !.apiKey = apiKey, !.model = model,
                                               !.before = adapters[name]]
    /\ UNCHANGED <<config, lastIndex, calls, chat, saves, configured>>

\* testConnection() settles: the handler answers {success}
TestDone(success) ==
    /\ test.pc = "awaiting"
    /\ test' = [test EXCEPT !.pc = "done", !.success = success]
    /\ UNCHANGED <<config, adapters, lastIndex, calls, chat, saves, configured>>

\* a millisecond passes while the call waits for its adapter
Tick(c) ==
    /\ calls[c].pc = "awaiting"
    /\ calls[c].clock < MaxClock
    /\ calls' = [calls EXCEPT ![c].clock = @ + 1]
    /\ UNCHANGED <<config, adapters, lastIndex, chat, saves, configured, test>>

-----------------------------------------------------------------------------
(* Specifications *)

\* Configurations the store may hold when the process starts: the four
\* default entries, each one as in the defaults ("off": disabled, no key),
\* disabled with a key ("paused") or enabled ("ready", with a key unless it
\* is the local backend), under one of the priority vectors.
Stored(status, prio) ==
    [i \in DOMAIN defaultProviders |->
        [defaultProviders[i] EXCEPT
            !.enabled = status[i] = "ready",
            !.apiKey = IF status[i] = "off" \/ defaultProviders[i].name = OLLAMA
                       THEN "" ELSE "sk-1",
            !.priority = prio[i]]]

Statuses ==
    {s \in [1..4 -> {"off", "paused", "ready"}] : s[4] # "paused"}

PriorityVectors == {<<1, 2, 3, 4>>, <<3, 1, 4, 2>>, <<2, 2, 1, 1>>}

StoredConfigs == {Stored(s, p) : s \in Statuses, p \in PriorityVectors}

InitWith(cfgs) ==
    /\ config \in cfgs
    /\ adapters = InitialAdapters
    /\ lastIndex = <<0, 0>>
    /\ calls = [c \in Calls |-> IdleCall]
    /\ chat = NoChat
    /\ saves = 0
    /\ configured = NotAsked
    /\ test = NoTest

Init == InitWith(StoredConfigs)

Next ==
    \/ \E fate \in Fates : AiEnhance(1, PlainText, "rephrase", fate)
    \/ \E usable \in BOOLEAN : Respond(1, usable)
    \/ \E msg \in BackendErrors : Throw(1, msg)
    \/ Timeout(1)
    \/ \E name \in SaveNames, partial \in Partials : SaveProvider(name, partial)

Spec == Init /\ [][Next]_vars

\* One chat request next to one ai:enhance request (which configures the
\* adapters) and a save that enables an entry no adapter is registered for.
Q1 == Str(<<"q", "1">>, "x", 0)

A1 == Str(<<"a", "1">>, "x", 0)

Note == Str(<<"n">>, "x", 0)

\* a history message that fits the balanced window but not the concise one
LongAnswer == Str(<<"a">>, "x", 2 * DefaultMaxTokens)

Histories ==
    {<<>>,
     <<ChatMessage("user", Q1), ChatMessage("assistant", A1)>>,
     <<ChatMessage("user", Q1), ChatMessage("assistant", LongAnswer),
       ChatMessage("system", Note)>>}

ChatTexts ==
    {PlainText, Str(<<" ", "h", "i", " ", " ">>, "x", 0),
     NonString("undefined"), Str(<<>>, "x", 0), Str(<<" ">>, " ", MaxMessageLength),
     Str(<<" ">> \o Hi, "x", MaxMessageLength - 2),
     Str(Hi, "x", MaxMessageLength - 1), Str(Ssn, "x", 0)}

ChatRequests ==
    [message : ChatTexts, conversationHistory : Histories, useContext : BOOLEAN]

ChatConfigs ==
    {ChatConfig(style, aware) : style \in {"balanced", "concise"}, aware \in BOOLEAN}

ChatStoredConfigs ==
    {defaultProviders,
     Stored(<<"ready", "ready", "ready", "ready">>, <<3, 1, 4, 2>>),
     Stored(<<"ready", "off", "off", "ready">>, <<1, 2, 3, 4>>)}

ChatInit ==
    /\ config \in ChatStoredConfigs
    /\ adapters = InitialAdapters
    /\ lastIndex = <<0, 0>>
    /\ calls = [c \in Calls |-> IdleCall]
    /\ chat \in {[NoChat EXCEPT !.activeConfig = a] : a \in ChatConfigs}
    /\ saves = 0
    /\ configured = NotAsked
    /\ test = NoTest

ChatNext ==
    \/ \E request \in ChatRequests, fate \in Fates : ChatSendMessage(request, fate)
    \/ \E usable \in BOOLEAN : ChatRespond(usable)
    \/ ChatThrow("rate limited")
    \/ AiEnhance(1, PlainText, "rephrase", "settles")
    \/ Respond(1, TRUE)
    \/ SaveProvider("Custom", [enabled |-> TRUE, priority |-> 1])

ChatSpec == ChatInit /\ [][ChatNext]_vars

\* The chat request when every adapter call that can settle does settle.
\* The handler sets no timer, so nothing is assumed about a call that hangs.
ChatLiveSpec ==
    /\ ChatInit
    /\ [][ChatNext]_vars
    /\ WF_vars(\E usable \in BOOLEAN : ChatRespond(usable))
    /\ WF_vars(ChatThrow("rate limited"))

\* Requests (each sent once the previous one is answered), saves of one
\* entry, replacements of the whole list and registry queries.  The lists a
\* replacement stores hold two entries of equal priority, the local backend
\* first, or the local backend alone.
Tied ==
    << ProviderConfig(OLLAMA, "", "llama2", TRUE, 1),
       ProviderConfig("OpenRouter", "sk-1", "openai/gpt-4o-mini", TRUE, 1) >>

LocalOnly == << ProviderConfig(OLLAMA, "", "llama2", TRUE, 1) >>

SetLists == {Tied, LocalOnly}

StorePartials == {[model |-> ""], [apiKey |-> "sk-2"], [enabled |-> FALSE]}

StoreConfigs ==
    {Stored(<<"off", "ready", "off", "ready">>, <<1, 2, 3, 4>>),
     Stored(<<"ready", "ready", "off", "off">>, <<2, 2, 1, 1>>)}

StoreInit == InitWith(StoreConfigs)

StoreNext ==
    \/ \E c \in Calls :
          /\ \A d \in Calls : calls[d].pc # "awaiting"
          /\ AiEnhance(c, PlainText, "rephrase", "settles")
    \/ \E c \in Calls : Respond(c, TRUE)
    \/ \E c \in Calls : Throw(c, "unauthorized")
    \/ \E partial \in StorePartials : SaveProvider("OpenRouter", partial)
    \/ \E providers \in SetLists : ConfigSet(providers)
    \/ GetConfiguredProviders

StoreSpec == StoreInit /\ [][StoreNext]_vars

\* Moves of a provider to the first place, on a store whose priorities are
\* any permutation of 1..4.
PriorityPermutations ==
    {prio \in [1..4 -> 1..4] : \A i, j \in 1..4 : prio[i] = prio[j] => i = j}

PriorityConfigs ==
    {Stored(status, prio) :
        status \in {<<"off", "off", "off", "off">>, <<"ready", "paused", "off", "ready">>,
                    <<"ready", "ready", "ready", "ready">>},
        prio \in PriorityPermutations}

PriorityInit == InitWith(PriorityConfigs)

PriorityNext ==
    \E name \in Registered : SaveProvider(name, [priority |-> 1])

PrioritySpec == PriorityInit /\ [][PriorityNext]_vars

\* Connection tests of the adapters, one after the other, between saves of
\* keys and models.
AdapterConfigs ==
    {defaultProviders, Stored(<<"ready", "ready", "paused", "ready">>, <<1, 2, 3, 4>>)}

AdapterInit == InitWith(AdapterConfigs)

AdapterPartials ==
    {[apiKey |-> ""], [apiKey |-> "sk-2"], [model |-> ""], [model |-> "mistral"]}

AdapterNext ==
    \/ \E name \in Registered \cup {"Custom"} : TestProvider(name)
    \/ \E success \in BOOLEAN : TestDone(success)
    \/ \E name \in {"OpenRouter", "Anthropic", OLLAMA}, partial \in AdapterPartials :
          SaveProvider(name, partial)

AdapterSpec == AdapterInit /\ [][AdapterNext]_vars

\* One chat request on a store the settings panel has written to: a provider
\* enabled without a key, a key saved, an entry under a name no adapter is
\* registered under; an ai:enhance request may come before it.
ChatStoreConfigs ==
    {defaultProviders, Stored(<<"ready", "off", "off", "ready">>, <<3, 1, 4, 2>>)}

ChatStoreInit ==
    /\ config \in ChatStoreConfigs
    /\ adapters = InitialAdapters
    /\ lastIndex = <<0, 0>>
    /\ calls = [c \in Calls |-> IdleCall]
    /\ chat = NoChat
    /\ saves = 0
    /\ configured = NotAsked
    /\ test = NoTest

ChatStorePartials ==
    {[enabled |-> TRUE], [apiKey |-> "sk-2", enabled |-> TRUE],
     [enabled |-> TRUE, priority |-> 1]}

ChatStoreRequests ==
    [message : {PlainText}, conversationHistory : {<<>>}, useContext : {FALSE}]

ChatStoreNext ==
    \/ \E request \in ChatStoreRequests : ChatSendMessage(request, "settles")
    \/ ChatRespond(TRUE)
    \/ ChatThrow("rate limited")
    \/ AiEnhance(1, PlainText, "rephrase", "settles")
    \/ Respond(1, TRUE)
    \/ \E name \in {"OpenRouter", "Anthropic", "Custom"},
          partial \in ChatStorePartials : SaveProvider(name, partial)

ChatStoreSpec == ChatStoreInit /\ [][ChatStoreNext]_vars

\* Requests that overlap, and saves of a model or of a key (a new one or the
\* empty one), on a store whose candidates are a remote backend followed by
\* the local one.
RaceConfigs ==
    {Stored(<<"off", "ready", "off", "ready">>, <<1, 2, 3, 4>>),
     Stored(<<"off", "off", "ready", "ready">>, <<1, 2, 3, 4>>)}

RaceInit == InitWith(RaceConfigs)

RacePartials == {[model |-> "mistral"], [apiKey |-> "sk-2"], [apiKey |-> ""]}

RaceNext ==
    \/ \E c \in Calls : AiEnhance(c, PlainText, "rephrase", "settles")
    \/ \E c \in Calls : Respond(c, TRUE)
    \/ \E c \in Calls : Throw(c, "unauthorized")
    \/ \E name \in {OLLAMA, "OpenRouter", "Anthropic"}, partial \in RacePartials :
          SaveProvider(name, partial)

RaceSpec == RaceInit /\ [][RaceNext]_vars

\* Requests made one after the other while the clock advances during the
\* awaited adapter calls, on a store with two or three usable providers.
TimeConfigs ==
    {Stored(<<"off", "ready", "off", "ready">>, <<1, 2, 3, 4>>),
     Stored(<<"ready", "off", "ready", "ready">>, <<3, 1, 4, 2>>)}

TimeInit == InitWith(TimeConfigs)

TimeNext ==
    \/ \E c \in Calls :
          /\ \A d \in Calls : calls[d].pc # "awaiting"
          /\ AiEnhance(c, PlainText, "rephrase", "settles")
    \/ \E c \in Calls : Tick(c)
    \/ \E c \in Calls : Respond(c, TRUE)
    \/ \E c \in Calls : Throw(c, "unauthorized")

TimeSpec == TimeInit /\ [][TimeNext]_vars

\* Requests with any text, each sent once the previous one is answered, on
\* a store that holds the defaults or two usable providers.
IpcConfigs ==
    {defaultProviders, Stored(<<"off", "ready", "paused", "ready">>, <<1, 2, 3, 4>>)}

IpcInit == InitWith(IpcConfigs)

IpcNext ==
    \/ \E c \in Calls, text \in Texts, fate \in Fates :
          /\ \A d \in Calls : calls[d].pc # "awaiting"
          /\ AiEnhance(c, text, "formal", fate)
    \/ \E c \in Calls : Respond(c, TRUE)
    \/ \E c \in Calls : Throw(c, "unauthorized")
    \/ \E c \in Calls : Timeout(c)

IpcSpec == IpcInit /\ [][IpcNext]_vars

\* The same request under the scheduling the event loop guarantees: the
\* timer of a pending race fires.  Nothing is assumed about the adapters.
LiveConfigs ==
    {Stored(<<"ready", "ready", "ready", "ready">>, <<3, 1, 4, 2>>),
     Stored(<<"ready", "off", "paused", "ready">>, <<3, 1, 4, 2>>)}

LiveInit == InitWith(LiveConfigs)

\* saves that change what the loop reads while it runs
LivePartials == {[apiKey |-> ""], [enabled |-> FALSE]}

LiveNext ==
    \/ \E fate \in Fates : AiEnhance(1, PlainText, "rephrase", fate)
    \/ \E usable \in BOOLEAN : Respond(1, usable)
    \/ \E msg \in BackendErrors : Throw(1, msg)
    \/ Timeout(1)
    \/ \E partial \in LivePartials : SaveProvider("OpenRouter", partial)

LiveSpec == LiveInit /\ [][LiveNext]_vars /\ WF_vars(Timeout(1))

-----------------------------------------------------------------------------
(* Properties of enhanceWithFallback *)

\* positions of the descriptors of cfg that are enabled and are the local
\* backend or carry a non-empty key
EligibleAt(cfg) ==
    {i \in DOMAIN cfg :
        cfg[i].enabled /\ (cfg[i].name = OLLAMA \/ cfg[i].apiKey # "")}

PositionIn(s, x) == CHOOSE i \in DOMAIN s : s[i] = x

Ended(call) == call.pc = "done" /\ call.orchestrated

AllFailedEnvelope(call) == Ended(call) /\ call.resp.code = "ALL_PROVIDERS_FAILED"

Succeeded(call) == Ended(call) /\ call.resp.kind = "result"

\* C1: the attempted providers of a call are eligible descriptors of the
\* configuration read at its start, none twice; of two eligible descriptors
\* with distinct priorities the one with the higher number is attempted only
\* after the one with the lower number; a call in which every candidate
\* failed has attempted all of them.
C1_AscendingPriorityOrder ==
    \A c \in Calls :
        LET call == calls[c]
            cfg  == call.config
            att  == call.attempted
            el   == EligibleAt(cfg)
        IN  call.orchestrated =>
              /\ \A i \in DOMAIN att : \E j \in el : cfg[j].name = att[i]
              /\ \A i, j \in DOMAIN att : att[i] = att[j] => i = j
              /\ \A p, q \in el :
                    (cfg[p].priority < cfg[q].priority /\ cfg[q].name \in Range(att))
                    => /\ cfg[p].name \in Range(att)
                       /\ PositionIn(att, cfg[p].name) < PositionIn(att, cfg[q].name)
              /\ AllFailedEnvelope(call) => Len(att) = Cardinality(el)

\* a call has tried three candidates in an order that is not the order of
\* the configuration list, and the store was saved to meanwhile
C1_Witness ==
    \E c \in Calls :
        /\ AllFailedEnvelope(calls[c])
        /\ Len(calls[c].attempted) >= 3
        /\ \E i \in EligibleAt(calls[c].config) :
              /\ \A j \in EligibleAt(calls[c].config) : i <= j
              /\ calls[c].attempted[1] # calls[c].config[i].name
        /\ config # calls[c].config

\* C2: a call that returns a result returns the result of the last adapter
\* whose enhance it invoked, built from the request's own text and type and
\* carrying that adapter's name; that adapter is the candidate the loop
\* stopped at, and each candidate ordered before it has exactly one
\* recorded failure.
C2_FirstSuccessReturned ==
    \A c \in Calls :
        LET call == calls[c]
            res  == call.resp.result
        IN  Succeeded(call) =>
              /\ call.invoked # <<>>
              /\ call.invoked[Len(call.invoked)] = call.ordered[call.idx]
              /\ res.provider = call.ordered[call.idx]
              /\ res.original = call.text
              /\ \A i \in DOMAIN res.suggestions : res.suggestions[i].type = call.type
              /\ Len(call.errors) = call.idx - 1
              /\ \A j \in 1..(call.idx - 1) :
                    Cardinality({i \in DOMAIN call.errors :
                                    call.errors[i].provider = call.ordered[j]}) = 1
              /\ \A j \in (call.idx + 1)..Len(call.ordered) :
                    call.ordered[j] \notin Range(call.invoked)

\* a result is returned by the third candidate after two failures, with a
\* candidate left untried
C2_Witness ==
    \E c \in Calls :
        /\ Succeeded(calls[c])
        /\ calls[c].idx = 3
        /\ Len(calls[c].ordered) = 4

\* the descriptor of name in cfg may not be attempted
Excluded(cfg, name) ==
    \E i \in DOMAIN cfg :
        /\ cfg[i].name = name
        /\ \/ ~cfg[i].enabled
           \/ (name # OLLAMA /\ cfg[i].enabled /\ cfg[i].apiKey = "")

\* C3: no method of a call's attempt loop (configure, isConfigured, enhance)
\* is invoked on, and no failure is recorded for, an adapter whose descriptor
\* in the configuration read at the start of the call is disabled, or is
\* enabled with an empty key and not the local backend.
C3_ExcludedNeverAttempted ==
    \A c \in Calls :
        \A name \in Registered \cup SaveNames :
            Excluded(calls[c].config, name) =>
                /\ name \notin Range(calls[c].invoked)
                /\ name \notin Range(calls[c].attempted)
                /\ \A i \in DOMAIN calls[c].errors : calls[c].errors[i].provider # name

\* a provider was saved as enabled with an empty key, a call read that
\* configuration and tried another provider that ranks after the excluded one
C3_Witness ==
    \E c \in Calls :
        /\ saves > 0
        /\ Ended(calls[c])
        /\ calls[c].config = config
        /\ calls[c].invoked # <<>>
        /\ \E i, j \in DOMAIN config :
              /\ config[i].name = "OpenRouter"
              /\ config[i].enabled /\ config[i].apiKey = ""
              /\ config[j].name = calls[c].invoked[1]
              /\ config[i].priority < config[j].priority

\* C4 as stated: with no eligible provider the call fails with the
\* no-providers error without invoking any adapter method.
C4_NoAdapterMethodAtAll ==
    \A c \in Calls :
        (calls[c].orchestrated /\ EligibleAt(calls[c].config) = {})
            => calls[c].methods = {}

\* C4 amended: with no eligible provider the call ends at once with an error
\* that has no code and the no-providers message (the composite error has
\* the code ALL_PROVIDERS_FAILED), reported as ENHANCEMENT_FAILED, with no
\* attempt, no failure record and no isConfigured or enhance invoked; the
\* only adapter method invoked is configure, by applyConfig, on the
\* registered adapters named in the configuration.
C4_NoProvidersFastPath ==
    \A c \in Calls :
        LET call == calls[c]
        IN  (call.orchestrated /\ EligibleAt(call.config) = {}) =>
              /\ call.pc = "done"
              /\ call.outcome.kind = "thrown"
              /\ call.outcome.code = Undefined
              /\ call.outcome.message = NoProvidersMessage
              /\ call.resp.kind = "error"
              /\ call.resp.code = "ENHANCEMENT_FAILED"
              /\ call.resp.code # "ALL_PROVIDERS_FAILED"
              /\ call.resp.errors = <<>>
              /\ call.attempted = <<>> /\ call.invoked = <<>> /\ call.errors = <<>>
              /\ call.methods =
                    {<<call.config[i].name, "configure">> :
                        i \in {j \in DOMAIN call.config : call.config[j].name \in Registered}}

\* a call has ended on a configuration without eligible provider in which a
\* provider is enabled
C4_Witness ==
    \E c \in Calls :
        /\ Ended(calls[c])
        /\ EligibleAt(calls[c].config) = {}
        /\ \E i \in DOMAIN calls[c].config : calls[c].config[i].enabled

\* the messages a failure record for provider name may carry
OwnMessages(name) ==
    {"Provider not found", "API key not configured",
     "Provider not properly configured", "Request timeout"}
    \cup {ErrorLabel(name) \o " enhancement failed: " \o m : m \in BackendErrors}

\* C5: when every candidate failed, the envelope has the code
\* ALL_PROVIDERS_FAILED and one failure record per eligible descriptor of the
\* configuration read at the start, in attempt order, each under its own
\* provider's name with a message of that provider; the message counts the
\* candidates and lists the records as "<provider>: <message>" joined by "; ".
C5_AggregateFailureComplete ==
    \A c \in Calls :
        LET call == calls[c]
            errs == call.resp.errors
            n    == Cardinality(EligibleAt(call.config))
        IN  (Ended(call) /\ call.resp.kind = "error" /\ n > 0) =>
              /\ call.resp.code = "ALL_PROVIDERS_FAILED"
              /\ Len(errs) = n
              /\ \A i \in DOMAIN errs :
                    /\ errs[i].provider = call.attempted[i]
                    /\ errs[i].error \in OwnMessages(errs[i].provider)
              /\ \A i, j \in DOMAIN errs : errs[i].provider = errs[j].provider => i = j
              /\ call.resp.error =
                    "All " \o ToString(n) \o " provider(s) failed. "
                    \o Join([i \in DOMAIN errs |->
                                errs[i].provider \o ": " \o errs[i].error], "; ")

\* three candidates have failed with three different messages
C5_Witness ==
    \E c \in Calls :
        /\ AllFailedEnvelope(calls[c])
        /\ Len(calls[c].resp.errors) = 3
        /\ calls[c].resp.errors[1].error = "OpenAI enhancement failed: unauthorized"
        /\ calls[c].resp.errors[2].error = "Request timeout"
        /\ calls[c].resp.errors[3].error = "Ollama enhancement failed: rate limited"

\* a step of call c taken while its adapter call hangs
HungStep(c) ==
    /\ calls[c].pc = "awaiting"
    /\ calls[c].fate = "hangs"
    /\ calls'[c] # calls[c]

\* what a rejected attempt leaves behind: one more failure record, for the
\* pending candidate and with the given message, then the next candidate
\* attempted or the composite failure returned
FailedWith(old, new, message) ==
    /\ Len(new.errors) > Len(old.errors)
    /\ SubSeq(new.errors, 1, Len(old.errors)) = old.errors
    /\ new.errors[Len(old.errors) + 1] =
          [provider |-> old.ordered[old.idx], error |-> message]
    /\ \/ /\ new.pc = "awaiting"
          /\ new.idx > old.idx
          /\ new.invoked = Append(old.invoked, new.ordered[new.idx])
       \/ /\ new.pc = "done"
          /\ new.resp.code = "ALL_PROVIDERS_FAILED"
          /\ new.invoked = old.invoked
          /\ Len(new.errors) = Len(new.ordered)

\* C6: a call whose adapter never settles goes on only by a step that
\* records 'Request timeout' for the pending provider and moves to the next
\* candidate (or returns the composite failure), as a thrown error does;
\* and every call that waits for an adapter eventually ends: from some
\* point on no call is waiting.
C6_TimeoutIsFailureAndCallsEnd ==
    /\ [][\A c \in Calls :
            HungStep(c) => FailedWith(calls[c], calls'[c], "Request timeout")]_vars
    /\ <>[](\A c \in Calls : calls[c].pc # "awaiting")

\* a call returns the result of its third candidate after the first two
\* timed out
C6_Witness ==
    \E c \in Calls :
        /\ Succeeded(calls[c])
        /\ Len(calls[c].errors) = 2
        /\ \A i \in 1..2 : calls[c].errors[i].error = "Request timeout"

-----------------------------------------------------------------------------
(* Properties of the ai:enhance handler *)

\* some sensitive pattern matches somewhere in t
MatchesSensitive(t) ==
    \E k \in {1, 2} : \E i \in 0..Len(t.body) : MatchAt(k, t, i) >= 0

InputCodes == {"NO_TEXT_SELECTED", "TEXT_TOO_LONG", "SENSITIVE_DATA"}

\* C7: every request whose text passes the empty and length checks and
\* matches a sensitive pattern is answered SENSITIVE_DATA, and neither
\* enhanceWithFallback nor an adapter method is invoked for it.
C7_SensitiveAlwaysRejected ==
    \A c \in Calls :
        LET call == calls[c]
        IN  (/\ call.pc # "idle"
             /\ ~NoText(call.text)
             /\ Length(call.text) <= MaxTextLength
             /\ MatchesSensitive(call.text))
            => /\ call.pc = "done"
               /\ call.resp.code = "SENSITIVE_DATA"
               /\ ~call.orchestrated
               /\ call.methods = {}

\* C8: a request without text (no string, empty, blank) is answered
\* NO_TEXT_SELECTED, whatever its length; a request with text of more than
\* 10,000 characters is answered TEXT_TOO_LONG, sensitive or not; only a
\* text that passes both checks is answered SENSITIVE_DATA; and a request
\* answered with one of the three codes has ended without a call of
\* enhanceWithFallback and without any adapter method invoked.
C8_InputChecksInOrder ==
    \A c \in Calls :
        LET call == calls[c]
        IN  call.pc # "idle" =>
              /\ NoText(call.text) =>
                    call.pc = "done" /\ call.resp.code = "NO_TEXT_SELECTED"
              /\ (~NoText(call.text) /\ Length(call.text) > MaxTextLength) =>
                    call.pc = "done" /\ call.resp.code = "TEXT_TOO_LONG"
              /\ call.resp.code = "SENSITIVE_DATA" =>
                    ~NoText(call.text) /\ Length(call.text) <= MaxTextLength
              /\ call.resp.code \in InputCodes =>
                    /\ call.pc = "done"
                    /\ call.resp.kind = "error"
                    /\ ~call.orchestrated
                    /\ call.methods = {} /\ call.invoked = <<>>
              /\ (~NoText(call.text) /\ Length(call.text) <= MaxTextLength
                    /\ ~MatchesSensitive(call.text)) => call.orchestrated

\* a blank text over the limit was answered NO_TEXT_SELECTED and a
\* sensitive text over the limit TEXT_TOO_LONG
C8_Witness ==
    /\ calls[1].pc = "done" /\ calls[2].pc = "done"
    /\ Length(calls[1].text) > MaxTextLength
    /\ calls[1].resp.code = "NO_TEXT_SELECTED"
    /\ MatchesSensitive(calls[2].text)
    /\ calls[2].resp.code = "TEXT_TOO_LONG"

EnvelopeCodes ==
    InputCodes \cup {"ALL_PROVIDERS_FAILED", "ENHANCEMENT_FAILED"}

-----------------------------------------------------------------------------
(* Properties of the chat path *)

\* C10: every adapter call of a chat request is, for an adapter without
\* enhanceChat, a call of enhance with exactly the trimmed current message,
\* which is the content of the last message of the list and has role user;
\* for an adapter with enhanceChat, a call of enhanceChat with the whole
\* list (system prompt, history, current message); and when the call
\* resolves the request is answered with a response of that adapter.
C10_ChatCapabilityFallback ==
    /\ \A i \in DOMAIN chat.log :
          LET call == chat.log[i]
              last == chat.messages[Len(chat.messages)]
          IN  /\ last = ChatMessage("user", Trim(chat.message))
              /\ chat.messages[1] = ChatMessage("system", SystemPrompt)
              /\ call.provider \notin ChatCapable =>
                    /\ call.method = "enhance"
                    /\ call.text = Trim(chat.message)
                    /\ call.text = last.content
              /\ call.provider \in ChatCapable =>
                    /\ call.method = "enhanceChat"
                    /\ call.messages = chat.messages
    /\ (chat.pc = "done" /\ chat.resp.kind = "response") =>
          /\ chat.log # <<>>
          /\ chat.resp.provider = chat.log[Len(chat.log)].provider

\* an adapter without enhanceChat answered a request whose message needed
\* trimming and whose list holds an earlier user message, after an adapter
\* with enhanceChat had been given the list and failed
C10_Witness ==
    /\ chat.pc = "done" /\ chat.resp.kind = "response"
    /\ chat.resp.provider \notin ChatCapable
    /\ chat.message # Trim(chat.message)
    /\ Len(chat.messages) >= 4
    /\ chat.messages[2] = ChatMessage("user", Q1)
    /\ \E i \in DOMAIN chat.log : chat.log[i].method = "enhanceChat"
    /\ chat.log[Len(chat.log)].method = "enhance"

-----------------------------------------------------------------------------
(* Properties of configuration application *)

\* the descriptor of name in cfg
Descriptor(cfg, name) == cfg[FindIndex(cfg, name)]

\* C11: as long as no save was made since a call started, the configuration
\* the call read is the stored one, its candidates are the eligible
\* descriptors of that configuration, and at every invocation of enhance the
\* adapter held the apiKey (remote backends) and the model of its descriptor,
\* or the adapter's own default model when the descriptor names none.
C11_CallUsesSavedConfiguration ==
    \A c \in Calls :
        LET call == calls[c]
        IN  (call.orchestrated /\ saves = call.epoch) =>
              /\ call.config = config
              /\ call.ordered = Ordered(config)
              /\ \A j \in DOMAIN call.used :
                    LET u == call.used[j]
                        d == Descriptor(config, u.provider)
                    IN  /\ u.provider # OLLAMA => u.apiKey = d.apiKey
                        /\ u.model = IF Truthy(d.model) THEN d.model
                                      ELSE InitialAdapters[u.provider].model


\* C12: the last answer of getConfiguredProviders lists, in registration
\* order, exactly the registered adapters that are local or whose apiKey in
\* the configuration stored at the time of the call is non-empty.
C12_ConfiguredProvidersFollowStore ==
    configured.asked =>
        LET HasKey(name) ==
                \/ name = OLLAMA
                \/ /\ getProviderApiKey(configured.store, name) # ""
                   /\ getProviderApiKey(configured.store, name) # Undefined
        IN  configured.result = SelectSeq(providerInstances, HasKey)


\* position of an adapter in the registry
RegistrationIndex(name) ==
    CHOOSE i \in DOMAIN providerInstances : providerInstances[i] = name

\* two candidates of a call that its configuration gives the same priority
TiedCandidates(call, i, j) ==
    /\ i < j
    /\ call.ordered[i] \in Registered
    /\ call.ordered[j] \in Registered
    /\ Descriptor(call.config, call.ordered[i]).priority
         = Descriptor(call.config, call.ordered[j]).priority

\* C13 as stated: candidates of equal priority are attempted in the order in
\* which their adapters were registered.
C13_TiesInRegistrationOrder ==
    \A c \in Calls :
        LET call == calls[c]
        IN  call.orchestrated =>
              \A i, j \in DOMAIN call.ordered :
                  TiedCandidates(call, i, j) =>
                      RegistrationIndex(call.ordered[i]) < RegistrationIndex(call.ordered[j])

\* C13 (amended): the candidate order of a call is the one function of the
\* configuration it read, and candidates of equal priority are attempted in
\* the order of their descriptors in that configuration.
C13_TiesInConfigurationOrder ==
    \A c \in Calls :
        LET call == calls[c]
        IN  call.orchestrated =>
              /\ call.ordered = Ordered(call.config)
              /\ \A i, j \in DOMAIN call.ordered :
                    TiedCandidates(call, i, j) =>
                        FindIndex(call.config, call.ordered[i])
                          < FindIndex(call.config, call.ordered[j])

\* a call whose two tied candidates stand in the configuration in the reverse
\* of their registration order
C13_Witness ==
    \E c \in Calls :
        /\ calls[c].orchestrated
        /\ \E i, j \in DOMAIN calls[c].ordered :
              /\ TiedCandidates(calls[c], i, j)
              /\ RegistrationIndex(calls[c].ordered[i]) > RegistrationIndex(calls[c].ordered[j])


\* C14: two calls between whose starts no save was made read the same
\* configuration and compute the same candidate order, whatever the first
\* call did to the shared adapters.
C14_SameOrderWithoutSave ==
    \A c, d \in Calls :
        (calls[c].orchestrated /\ calls[d].orchestrated
            /\ calls[c].epoch = calls[d].epoch) =>
                /\ calls[c].config = calls[d].config
                /\ calls[c].ordered = calls[d].ordered

\* a second call made with no save since the first, after the first one
\* configured adapters, attempted a candidate and recorded its failure
C14_Witness ==
    \E c, d \in Calls :
        /\ c # d
        /\ calls[c].orchestrated /\ calls[d].orchestrated
        /\ calls[c].epoch = calls[d].epoch
        /\ Ended(calls[c])
        /\ calls[c].errors # <<>>
        /\ calls[d].used # <<>>
        /\ Len(calls[d].ordered) >= 2


(***************************************************************************)
(* Properties of the returned result                                       *)
(***************************************************************************)

\* C15: every result returned as a success holds at least one suggestion.
C15_SuccessHasSuggestions ==
    \A c \in Calls :
        Succeeded(calls[c]) => calls[c].resp.result.suggestions # <<>>


\* C16: the processingTime of a returned success is the time elapsed since
\* the orchestration call started.
C16_ProcessingTimeFromOrchestrationStart ==
    \A c \in Calls :
        Succeeded(calls[c]) => calls[c].resp.result.processingTime = calls[c].clock


(***************************************************************************)
(* Properties of the privacy gate                                          *)
(***************************************************************************)

\* C17: a chat request whose message matches a sensitive pattern reaches no
\* adapter and is answered with the sensitive-data code.
C17_SensitiveChatRejected ==
    (chat.pc # "idle" /\ chat.message.type = "string"
        /\ MatchesSensitive(chat.message)) =>
            /\ chat.log = <<>>
            /\ chat.pc = "done"
            /\ chat.resp.kind = "error"
            /\ chat.resp.code = "SENSITIVE_DATA"


\* C18: the answer containsSensitiveData gives for a text does not depend on
\* the calls made before: in every state it is, for every text that reaches
\* the gate, the answer of the first call ever made.
C18_GateStateless ==
    \A t \in Texts :
        (~NoText(t) /\ Length(t) <= MaxTextLength) =>
            containsSensitiveData(t, lastIndex).found
                = containsSensitiveData(t, <<0, 0>>).found


(***************************************************************************)
(* Properties of the attempt loop                                          *)
(***************************************************************************)

\* a failure of name is recorded in the call
FailureRecorded(call, name) ==
    \E e \in DOMAIN call.errors : call.errors[e].provider = name

\* C19: within one call no provider's enhance is invoked twice; when the
\* enhance of a candidate has been invoked, every candidate whose enhance
\* was invoked before it has a recorded failure; and while the call waits,
\* the one invocation without a recorded failure is that of the current
\* candidate.
C19_SequentialWithoutRetry ==
    \A c \in Calls :
        LET call == calls[c]
            inv  == call.invoked
        IN  /\ \A i, j \in DOMAIN inv : i # j => inv[i] # inv[j]
            /\ \A j \in DOMAIN inv :
                  j < Len(inv) => FailureRecorded(call, inv[j])
            /\ call.pc = "awaiting" =>
                  /\ inv # <<>>
                  /\ inv[Len(inv)] = call.ordered[call.idx]
                  /\ ~FailureRecorded(call, inv[Len(inv)])

\* a call that invoked the enhance of three candidates, the first of which
\* timed out
C19_Witness ==
    \E c \in Calls :
        /\ Len(calls[c].invoked) >= 3
        /\ calls[c].errors[1].error = TimeoutMessage
        /\ calls[c].errors[1].provider = calls[c].invoked[1]


\* C20: at every invocation of an adapter's enhance by a call, the adapter
\* holds the key the call read in the loop (remote backends) and the model
\* of the provider's descriptor in the configuration the call read.
C20_InvokedWithOwnKeyAndModel ==
    \A c \in Calls :
        \A j \in DOMAIN calls[c].used :
            LET u == calls[c].used[j]
            IN  /\ u.provider # OLLAMA => u.apiKey = u.key
                /\ u.model = FindModel(calls[c].config, u.provider)


\* the candidates of call before whose turn comes in a step that takes the
\* call from before to after
TurnsTaken(before, after) ==
    {i \in DOMAIN before.ordered : before.idx < i /\ i <= after.idx}

\* C21: when a pending attempt of a call ends and the loop goes on, every
\* remote candidate whose turn comes and whose key in the store is empty by
\* then gets the failure record 'API key not configured', its enhance is
\* not invoked, and the loop moves past it.
C21_ClearedKeySkipsCandidate ==
    [][\A c \in Calls :
          LET before == calls[c]
              after  == calls'[c]
          IN  before.pc = "awaiting" =>
                \A i \in TurnsTaken(before, after) :
                    LET name == before.ordered[i]
                    IN  (name \in Registered /\ name # OLLAMA
                            /\ ~Truthy(getProviderApiKey(config, name))) =>
                        /\ \E e \in DOMAIN after.errors :
                              /\ e > Len(before.errors)
                              /\ after.errors[e] =
                                    FailureRecord(name, "API key not configured")
                        /\ name \notin Range(after.invoked)
                        /\ after.idx > i]_vars

\* a call skipped, for want of a key, a candidate that had one when the call
\* started, and then invoked the enhance of the candidate after it
C21_Witness ==
    \E c \in Calls :
        \E e \in DOMAIN calls[c].errors :
            LET name == calls[c].errors[e].provider
            IN  /\ calls[c].errors[e].error = "API key not configured"
                /\ Truthy(getProviderApiKey(calls[c].config, name))
                /\ Len(calls[c].invoked) >= 2
                /\ PositionIn(calls[c].ordered, name)
                     < PositionIn(calls[c].ordered,
                                  calls[c].invoked[Len(calls[c].invoked)])


(***************************************************************************)
(* Properties of the chat path                                             *)
(***************************************************************************)

\* C22: every adapter call of a chat request is made for a provider whose
\* descriptor, in the list the request read, is enabled and is the local
\* backend or carries a non-empty key; and the calls are made in ascending
\* order of priority.
C22_ChatCandidatesEligible ==
    /\ \A i \in DOMAIN chat.log :
          Eligible(Descriptor(chat.config, chat.log[i].provider))
    /\ \A i, j \in DOMAIN chat.log :
          i < j => Descriptor(chat.config, chat.log[i].provider).priority
                     <= Descriptor(chat.config, chat.log[j].provider).priority


\* C23: a chat request that waits for an adapter call is eventually answered,
\* with a ChatResponse or a ChatError.
C23_ChatRequestsEnd ==
    (chat.pc = "awaiting") ~> (chat.pc = "done" /\ chat.resp.kind \in {"response", "error"})


\* C24: at every adapter call of a chat request the adapter holds the apiKey
\* (remote backends) and the model of its descriptor in the list the request
\* read from the store.
C24_ChatUsesStoredConfiguration ==
    \A j \in DOMAIN chat.used :
        LET u == chat.used[j]
            d == Descriptor(chat.config, u.provider)
        IN  /\ u.provider # OLLAMA => u.apiKey = d.apiKey
            /\ u.model = d.model


\* C25: when every candidate of a chat request failed, the answer carries
\* the code ALL_PROVIDERS_FAILED and the list of failures, one entry per
\* selected candidate, in candidate order, with the provider's name.
C25_ChatAggregateFailureComplete ==
    (chat.pc = "done" /\ chat.idx > Len(chat.providerConfigs)
        /\ chat.providerConfigs # <<>>) =>
            /\ chat.resp.kind = "error"
            /\ chat.resp.code = "ALL_PROVIDERS_FAILED"
            /\ Len(chat.failedProviders) = Len(chat.providerConfigs)
            /\ \A i \in DOMAIN chat.failedProviders :
                  chat.failedProviders[i].name = chat.providerConfigs[i]
            /\ "failedProviders" \in DOMAIN chat.resp
            /\ chat.resp.failedProviders = chat.failedProviders


\* total content length of the messages
RECURSIVE TotalChars(_)
TotalChars(messages) ==
    IF messages = <<>> THEN 0
    ELSE Length(messages[1].content) + TotalChars(Tail(messages))

\* the history part of the list the request built
HistoryPart(ch) == SubSeq(ch.messages, 2, Len(ch.messages) - 1)

\* the request of ch asked for its history and the chat configuration uses it
UsesContext(ch) ==
    ch.pc # "idle" /\ ch.messages # <<>> /\ ch.activeConfig.contextAwareness
        /\ ch.useContext

\* C26: the history a request sends is, message by message, a suffix of the
\* history it was given, of at most 4 * maxTokens characters in all, and the
\* longest such suffix; the list is built once, so every adapter call of the
\* request is made with that list (enhanceChat) or with its last user
\* message (enhance).
C26_ContextIsLongestFittingSuffix ==
    UsesContext(chat) =>
        LET history == chat.conversationHistory
            kept    == HistoryPart(chat)
            dropped == Len(history) - Len(kept)
            budget  == 4 * getMaxTokens(chat.activeConfig)
        IN  /\ dropped >= 0
            /\ \A i \in DOMAIN kept :
                  /\ kept[i].content = history[dropped + i].content
                  /\ kept[i].role = IF history[dropped + i].role = "assistant"
                                    THEN "assistant" ELSE "user"
            /\ TotalChars(kept) <= budget
            /\ dropped > 0 =>
                  TotalChars(kept) + Length(history[dropped].content) > budget
            /\ \A j \in DOMAIN chat.log :
                  IF chat.log[j].method = "enhanceChat"
                  THEN chat.log[j].messages = chat.messages
                  ELSE chat.log[j].text = chat.messages[Len(chat.messages)].content

\* a request whose history was cut (something kept, something dropped) made
\* two adapter calls
C26_Witness ==
    /\ UsesContext(chat)
    /\ HistoryPart(chat) # <<>>
    /\ Len(HistoryPart(chat)) < Len(chat.conversationHistory)
    /\ Len(chat.log) >= 2


(***************************************************************************)
(* Properties of the adapters                                              *)
(***************************************************************************)

\* C27: right after a configure call, whatever calls came before it, the
\* adapter reports isConfigured() exactly when it is the local backend or
\* the key just passed is non-empty, and a second configure with the same
\* arguments changes nothing; a remote adapter still in its initial state
\* reports false.
C27_ConfiguredIffLastKey ==
    /\ (test.pc = "awaiting" /\ test.configured) =>
          /\ isConfigured(test.name, adapters[test.name])
                <=> (test.name = OLLAMA \/ test.apiKey # "")
          /\ configure(test.name, adapters[test.name], test.apiKey, test.model)
                = adapters[test.name]
    /\ \A name \in Registered \ {OLLAMA} :
          adapters[name] = InitialAdapters[name]
              => ~isConfigured(name, adapters[name])
    /\ isConfigured(OLLAMA, adapters[OLLAMA])


\* a connection test configured, with an empty key, a remote adapter that an
\* earlier configure call had given a key
C27_Witness ==
    /\ test.pc = "awaiting" /\ test.configured
    /\ test.name \in {"OpenRouter", "Anthropic"}
    /\ test.apiKey = ""
    /\ test.before.apiKey # ""
    /\ ~isConfigured(test.name, adapters[test.name])


(***************************************************************************)
(* Properties of the stored configuration                                  *)
(***************************************************************************)

\* C28: no step of an ai:enhance call (its start, the success, rejection or
\* timeout of an attempt) changes the stored provider list; and the failure
\* records a call holds and reports are those of its own attempts, one per
\* candidate it has given up, never those of an earlier call.
C28_OrchestratorKeepsNoState ==
    /\ [][(\E c \in Calls : calls'[c] # calls[c]) => config' = config]_vars
    /\ [](\A c \in Calls :
            LET call == calls[c]
            IN  /\ Len(call.errors) <= Len(call.attempted)
                /\ \A i \in DOMAIN call.errors :
                      call.errors[i].provider = call.attempted[i]
                /\ call.pc = "awaiting" => Len(call.errors) = Len(call.attempted) - 1
                /\ Ended(call) => call.resp.errors \in {<<>>, call.errors})

\* a call that succeeded at its first candidate, with no failure record,
\* after an earlier call on the same configuration had failed at every
\* candidate
C28_Witness ==
    /\ NumCalls >= 2
    /\ AllFailedEnvelope(calls[1])
    /\ Len(calls[1].resp.errors) >= 2
    /\ Succeeded(calls[2])
    /\ calls[2].errors = <<>>
    /\ calls[2].config = calls[1].config
    /\ config = calls[1].config


\* the priorities of cfg are a permutation of 1..Len(cfg)
IsPermutation(cfg) ==
    /\ \A i \in DOMAIN cfg : cfg[i].priority \in 1..Len(cfg)
    /\ \A i, j \in DOMAIN cfg : cfg[i].priority = cfg[j].priority => i = j

\* new is old with the provider at idx moved to the first place: it has
\* priority 1, those that ranked before it rank one lower, the others keep
\* their rank, and nothing else differs
MovedToFirst(old, new, idx) ==
    /\ DOMAIN new = DOMAIN old
    /\ new[idx] = [old[idx] EXCEPT !.priority = 1]
    /\ \A i \in DOMAIN old \ {idx} :
          new[i] = [old[i] EXCEPT !.priority =
                       IF old[i].priority < old[idx].priority THEN @ + 1 ELSE @]

\* C29: on a store whose priorities are a permutation of 1..N, every save
\* {priority: 1} of an existing provider moves that provider to the first
\* place and leaves a permutation of 1..N.
C29_MoveToFirstKeepsPermutation ==
    /\ [][saves' # saves =>
            \E idx \in DOMAIN config : MovedToFirst(config, config', idx)]_vars
    /\ [](IsPermutation(config))

\* the third provider of a store in default order was moved to the first
\* place: the two that ranked before it rank one lower, the fourth keeps
\* its rank
C29_Witness ==
    /\ saves >= 1
    /\ [i \in DOMAIN config |-> config[i].priority] = <<2, 3, 1, 4>>


\* the failure records of a call, pending or in the error it has thrown
RecordsOf(call) ==
    Range(call.errors) \cup Range(call.outcome.errors)

\* C30: no call ever records the failure 'Provider not properly configured'.
C30_GuardNeverFires ==
    \A c \in Calls :
        \A r \in RecordsOf(calls[c]) : r.error # "Provider not properly configured"

\* two calls are pending at once after a save, each of them having passed
\* the guard for a remote backend whose key it had just configured
C30_Witness ==
    /\ saves >= 1
    /\ \A c \in Calls :
          /\ calls[c].pc = "awaiting"
          /\ \E j \in DOMAIN calls[c].used :
                /\ calls[c].used[j].provider # OLLAMA
                /\ <<calls[c].used[j].provider, "isConfigured">> \in calls[c].methods

============================================================================
